---- MODULE Spec2Model ----
(***************************************************************************)
(* Model of the munin plugin pgp_expiration (src/main.rs): the three verbs *)
(* config / cron / fetch, the sequential resolution batch of cron(), the   *)
(* RON state file written by cron() and read by get_results(), and the two *)
(* renderers config() and fetch().                                         *)
(*                                                                         *)
(* Strings that the program inspects character by character (the `emails`  *)
(* value, the addresses) are sequences of one-character strings.           *)
(*                                                                         *)
(* Specifications: Spec (invocations one after another), SerialSpec (the   *)
(* same without failing writes), RaceSpec (two cron invocations at once),  *)
(* RenderSpec (config and fetch over cached snapshots) and FnSpec          *)
(* (clean_fieldname, the RON save and load, and get_days_to_expiration,    *)
(* each called on its own).                                                *)
(***************************************************************************)
EXTENDS Integers, Sequences, FiniteSets, TLC

\* ------------------------------------------------------------------ bounds
\* Largest number of space-separated segments of the `emails` value.
MaxEmails == 2

\* Number of invocations of the plugin in one behaviour.
MaxRuns == 2

\* Longest snapshot found cached in the rendering specification.
MaxSnapshot == 2

\* Longest text given to clean_fieldname on its own.
MaxText == 3

\* Largest number of keys of a certificate given to the evaluator on its own.
MaxKeys == 2

\* Seconds in a day: chrono's Duration::num_days() is num_seconds() / 86400.
SecsPerDay == 86400

\* The value fetch() prints for an identity whose resolution failed.
FailedSentinel == -999

\* ------------------------------------------------------ characters, strings
Letters ==
  {"a","b","c","d","e","f","g","h","i","j","k","l","m","n","o","p","q","r",
   "s","t","u","v","w","x","y","z","A","B","C","D","E","F","G","H","I","J",
   "K","L","M","N","O","P","Q","R","S","T","U","V","W","X","Y","Z"}

Digits == {"0","1","2","3","4","5","6","7","8","9"}

\* str::split(' '): always at least one segment; an empty string gives one
\* empty segment, two adjacent spaces give an empty segment between them.
RECURSIVE SplitFrom(_, _, _)
SplitFrom(s, i, cur) ==
  IF i > Len(s) THEN <<cur>>
  ELSE IF s[i] = " " THEN <<cur>> \o SplitFrom(s, i + 1, <<>>)
  ELSE SplitFrom(s, i + 1, Append(cur, s[i]))

SplitSpaces(s) == SplitFrom(s, 1, <<>>)

\* An underscore would be put in front of a text that starts with a digit.
clean_fieldname_prepend(text) ==
  LET body == [i \in 1..Len(text) |->
                 IF text[i] \notin (Letters \cup Digits \cup {"_"}) THEN "_" ELSE text[i]]
  IN IF body # <<>> /\ body[1] \notin (Letters \cup {"_"}) THEN <<"_">> \o body ELSE body

\* Regex (^[^A-Za-z_]|[^A-Za-z0-9_]) replaced by "_" everywhere: every match
\* is one character, so the replacement is a map over the characters.
clean_fieldname(text) ==
  [i \in 1..Len(text) |->
     IF i = 1 /\ text[i] \notin (Letters \cup {"_"}) THEN "_"
     ELSE IF text[i] \notin (Letters \cup Digits \cup {"_"}) THEN "_"
     ELSE text[i]]

\* wkd::Url::from(email): the address must split at '@' into two parts.
CountAt(email) == Cardinality({i \in 1..Len(email) : email[i] = "@"})

WkdUrlParses(email) == CountAt(email) = 1

\* ------------------------------------------------------------ KeyInfo data
\* days_to_expiration : Result<Option<i64>, String>, as a record with the
\* same fields in every variant (unused ones hold 0 / <<>>).
OkSome(n) == [tag |-> "Ok", opt |-> "Some", val |-> n, msg |-> <<>>]
OkNone == [tag |-> "Ok", opt |-> "None", val |-> 0, msg |-> <<>>]
ErrMsg(m) == [tag |-> "Err", opt |-> "-", val |-> 0, msg |-> m]

KeyInfo(email, dte) == [email |-> email, days_to_expiration |-> dte]

IsDays(k) == k.days_to_expiration.tag = "Ok" /\ k.days_to_expiration.opt = "Some"
IsNoExpiration(k) == k.days_to_expiration.tag = "Ok" /\ k.days_to_expiration.opt = "None"
IsFailed(k) == k.days_to_expiration.tag = "Err"

\* ------------------------------------------------------- Directory lookups
\* What the network can do with one GET request that was sent: fail at one
\* of the awaited steps of get_cert, or deliver bytes that parse into a
\* certificate. (wkd::Url::to_url is taken to succeed for parsed addresses.)
NetFailures ==
  {"Failed to send GET request", "WKD server returned error",
   "Failed to get response", "Failed to parse certificate"}

\* One key of a certificate: whether it satisfies the policy at the reference
\* time, whether it is revoked, and its expiration time (seconds), if any.
Key(valid, revoked, hasExp, exp) ==
  [valid |-> valid, revoked |-> revoked, hasExp |-> hasExp, exp |-> exp]

CertNoExp == <<Key(TRUE, FALSE, FALSE, 0)>>
CertSoon ==
  <<Key(TRUE, FALSE, TRUE, 10 * SecsPerDay),
    Key(TRUE, TRUE, TRUE, SecsPerDay),
    Key(FALSE, FALSE, TRUE, 2 * SecsPerDay),
    Key(TRUE, FALSE, TRUE, 3 * SecsPerDay + (SecsPerDay \div 2))>>
CertExpired ==
  <<Key(TRUE, FALSE, FALSE, 0),
    Key(TRUE, FALSE, TRUE, 0 - SecsPerDay - (SecsPerDay \div 4))>>

Certs == {CertNoExp, CertSoon, CertExpired}

\* No request was made (the address did not parse).
NoRequest == [fail |-> "", cert |-> <<>>]

Failure(step) == [fail |-> step, cert |-> <<>>]
Delivers(cert) == [fail |-> "", cert |-> cert]

AllResponses == {Failure(f) : f \in NetFailures} \cup {Delivers(c) : c \in Certs}

\* The answers the network gives in the behaviours explored.
Responses == {Failure("Failed to send GET request")} \cup {Delivers(c) : c \in Certs}

RaceResponses == {Failure("WKD server returned error"), Delivers(CertSoon)}

\* Utc::now() at the start of a batch.
Times == {SecsPerDay \div 2}

\* The day count would be rounded down instead of toward zero.
FloorDiv(a, b) == a \div b

\* Integer division of Rust and chrono: truncation toward zero.
TruncDiv(a, b) == IF a >= 0 THEN a \div b ELSE 0 - ((0 - a) \div b)

\* (DateTime::from(t) - now).num_days()
NumDays(t, now) == TruncDiv(t - now, SecsPerDay)

\* get_cert: Ok(cert) or the context chain of the step that failed.
get_cert(email, resp) ==
  IF ~WkdUrlParses(email)
    THEN [ok |-> FALSE, cert |-> <<>>, err |-> <<"Failed to parse email address">>]
  ELSE IF resp.fail # ""
    THEN [ok |-> FALSE, cert |-> <<>>, err |-> <<resp.fail>>]
  ELSE [ok |-> TRUE, cert |-> resp.cert, err |-> <<>>]

\* .keys().with_policy(policy, now).revoked(false).filter_map(expiration)
Candidates(cert, now) ==
  {NumDays(cert[i].exp, now) :
     i \in {j \in 1..Len(cert) :
              cert[j].valid /\ ~cert[j].revoked /\ cert[j].hasExp}}

MinOf(S) == CHOOSE m \in S : \A x \in S : m <= x

\* A failed lookup would be taken for a certificate without expiration.
get_days_to_expiration_swallow(email, resp, t) ==
  LET c == get_cert(email, resp) IN
  IF ~c.ok \/ Candidates(c.cert, t) = {} THEN OkNone
  ELSE OkSome(MinOf(Candidates(c.cert, t)))

\* get_days_to_expiration followed by the map_err of cron's closure:
\* Ok(Some(min)), Ok(None), or Err("Error: <chain>").
get_days_to_expiration(email, resp, now) ==
  LET c == get_cert(email, resp) IN
  IF ~c.ok THEN ErrMsg(<<"Error", "Failed to get certificate">> \o c.err)
  ELSE IF Candidates(c.cert, now) = {} THEN OkNone
  ELSE OkSome(MinOf(Candidates(c.cert, now)))

\* ------------------------------------------------------------ RON encoding
\* The state file is a sequence of chunks, each written by one write call:
\* "[", one chunk per KeyInfo, "]". A hole left by a write behind the end
\* of the file reads as NUL.
Chunk(t, email, text, num, msg) ==
  [t |-> t, email |-> email, text |-> text, num |-> num, msg |-> msg]

Open == Chunk("[", <<>>, "", 0, <<>>)
Close == Chunk("]", <<>>, "", 0, <<>>)
Nul == Chunk("NUL", <<>>, "", 0, <<>>)

\* A negative day count would be stored without its sign.
SerKeyInfoUnsigned(k) ==
  LET d == k.days_to_expiration IN
  IF d.tag = "Err" THEN Chunk("(", k.email, "Err(", 0, d.msg)
  ELSE IF d.opt = "Some" THEN Chunk("(", k.email, "Ok(Some(", IF d.val < 0 THEN 0 - d.val ELSE d.val, <<>>)
  ELSE Chunk("(", k.email, "Ok(None)", 0, <<>>)

SerKeyInfo(k) ==
  LET d == k.days_to_expiration IN
  IF d.tag = "Err" THEN Chunk("(", k.email, "Err(", 0, d.msg)
  ELSE IF d.opt = "Some" THEN Chunk("(", k.email, "Ok(Some(", d.val, <<>>)
  ELSE Chunk("(", k.email, "Ok(None)", 0, <<>>)

\* ron::ser::to_writer_pretty(&results)
Ser(results) ==
  <<Open>> \o [i \in 1..Len(results) |-> SerKeyInfo(results[i])] \o <<Close>>

DeKeyInfo(c) ==
  IF c.text = "Err(" THEN KeyInfo(c.email, ErrMsg(c.msg))
  ELSE IF c.text = "Ok(Some(" THEN KeyInfo(c.email, OkSome(c.num))
  ELSE KeyInfo(c.email, OkNone)

\* ron::de::from_reader: the text parses when it is "[" entries "]".
Parses(content) ==
  /\ Len(content) >= 2
  /\ content[1] = Open
  /\ content[Len(content)] = Close
  /\ \A i \in 2..(Len(content) - 1) : content[i].t = "("

De(content) == [i \in 1..(Len(content) - 2) |-> DeKeyInfo(content[i + 1])]

\* --------------------------------------------------------- Munin protocol
Line(kind, field, email, value, msg) ==
  [kind |-> kind, field |-> field, email |-> email, value |-> value, msg |-> msg]

\* "_{fieldname}" of the format strings of config() and fetch().
FieldOf(email) == <<"_">> \o clean_fieldname(email)

ConfigHeader ==
  <<Line("graph_title", <<>>, <<>>, 0, <<>>), Line("graph_vlabel", <<>>, <<>>, 0, <<>>)>>

\* A Failed entry would be left out like a NoExpiration entry.
ConfigRecordDaysOnly(k) ==
  IF ~IsDays(k) THEN <<>>
  ELSE <<Line("label", FieldOf(k.email), k.email, 0, <<>>),
         Line("warning", FieldOf(k.email), <<>>, 14, <<>>),
         Line("critical", FieldOf(k.email), <<>>, 7, <<>>)>>

\* A Failed entry would get its label and message but no thresholds.
ConfigRecordNoThresholds(k) ==
  IF IsNoExpiration(k) THEN <<>>
  ELSE IF IsFailed(k)
    THEN <<Line("label", FieldOf(k.email), k.email, 0, <<>>),
           Line("extinfo", FieldOf(k.email), <<>>, 0, k.days_to_expiration.msg)>>
  ELSE <<Line("label", FieldOf(k.email), k.email, 0, <<>>),
         Line("warning", FieldOf(k.email), <<>>, 14, <<>>),
         Line("critical", FieldOf(k.email), <<>>, 7, <<>>)>>

\* The lines config() prints for one KeyInfo.
ConfigRecord(k) ==
  IF IsNoExpiration(k) THEN <<>>
  ELSE <<Line("label", FieldOf(k.email), k.email, 0, <<>>),
         Line("warning", FieldOf(k.email), <<>>, 14, <<>>),
         Line("critical", FieldOf(k.email), <<>>, 7, <<>>)>>
       \o (IF IsFailed(k)
             THEN <<Line("extinfo", FieldOf(k.email), <<>>, 0, k.days_to_expiration.msg)>>
             ELSE <<>>)

\* A negative day count would be printed as 0.
FetchRecordClamped(k) ==
  IF IsNoExpiration(k) THEN <<>>
  ELSE IF IsFailed(k) THEN <<Line("value", FieldOf(k.email), <<>>, FailedSentinel, <<>>)>>
  ELSE <<Line("value", FieldOf(k.email), <<>>,
              IF k.days_to_expiration.val < 0 THEN 0 ELSE k.days_to_expiration.val, <<>>)>>

\* The line fetch() prints for one KeyInfo.
FetchRecord(k) ==
  IF IsNoExpiration(k) THEN <<>>
  ELSE IF IsFailed(k) THEN <<Line("value", FieldOf(k.email), <<>>, FailedSentinel, <<>>)>>
  ELSE <<Line("value", FieldOf(k.email), <<>>, k.days_to_expiration.val, <<>>)>>

RECURSIVE Flatten(_)
Flatten(ss) == IF ss = <<>> THEN <<>> ELSE Head(ss) \o Flatten(Tail(ss))

ConfigLines(results) ==
  ConfigHeader \o Flatten([i \in 1..Len(results) |-> ConfigRecord(results[i])])

FetchLines(results) == Flatten([i \in 1..Len(results) |-> FetchRecord(results[i])])

\* ------------------------------------------------------------ environment
EnvVar(set, val) == [set |-> set, val |-> val]

AddrGood == <<"a", "@", "b">>
AddrBad == <<"1", ".", "c">>

Addrs == {AddrGood, AddrBad}

RECURSIVE JoinSpaces(_)
JoinSpaces(l) ==
  IF Len(l) = 0 THEN <<>>
  ELSE IF Len(l) = 1 THEN l[1]
  ELSE l[1] \o <<" ">> \o JoinSpaces(Tail(l))

\* Values of `emails`: unset, the empty string, and up to MaxEmails
\* space-separated segments (an address or nothing between two spaces).
EmailsValues ==
  {EnvVar(FALSE, <<>>)} \cup
  {EnvVar(TRUE, JoinSpaces(l)) :
     l \in UNION {[1..n -> Addrs] : n \in 1..MaxEmails}} \cup
  {EnvVar(TRUE, <<>>)}

PlugStateValues == {EnvVar(FALSE, <<>>), EnvVar(TRUE, <<"d">>)}

\* MUNIN_CAP_DIRTYCONFIG, read once by main after config() returned.
DirtyValues == {EnvVar(FALSE, <<>>), EnvVar(TRUE, <<"1">>), EnvVar(TRUE, <<"0">>)}

\* The command lines: the arguments after the program name.
ArgLists == {<<>>, <<"config">>, <<"cron">>, <<"fetch">>, <<"config", "x">>}

\* ------------------------------------------------------------ file system
\* A snapshot left by an earlier run over other identities.
OldSnapshot ==
  <<KeyInfo(<<"o", "@", "p">>, OkSome(0 - 3)),
    KeyInfo(<<"q", "@", "r">>, OkNone),
    KeyInfo(<<"s">>, ErrMsg(<<"Error", "Failed to get certificate", "Failed to parse email address">>))>>

FileAbsent(dirWritable) ==
  [exists |-> FALSE, mode |-> "-", dirWritable |-> dirWritable, content |-> <<>>]

FilePresent(mode, content) ==
  [exists |-> TRUE, mode |-> mode, dirWritable |-> TRUE, content |-> content]

InitialFiles ==
  {FileAbsent(TRUE), FileAbsent(FALSE),
   FilePresent("rw", Ser(OldSnapshot)),
   FilePresent("rw", <<Open, SerKeyInfo(OldSnapshot[1])>>),
   FilePresent("rw", <<>>),
   FilePresent("wonly", Ser(OldSnapshot)),
   FilePresent("ronly", Ser(OldSnapshot))}

\* Every snapshot of at most MaxSnapshot entries over a few outcomes.
DayValues == {0 - 2, 0, 3}

Outcomes ==
  {OkSome(d) : d \in DayValues} \cup
  {OkNone, ErrMsg(<<"Error", "Failed to get certificate", "WKD server returned error">>)}

Snapshots ==
  UNION {[1..n -> {KeyInfo(e, d) : e \in Addrs, d \in Outcomes}] : n \in 0..MaxSnapshot}

\* A state file that is there would never open.
OpenResultNeverOk(f) == IF ~f.exists THEN "NotFound" ELSE "PermissionDenied"

\* File::open(path): Ok, or the io::Error kind.
OpenResult(f) ==
  IF ~f.exists THEN "NotFound"
  ELSE IF f.mode \in {"rw", "ronly"} THEN "Ok"
  ELSE "PermissionDenied"

\* File::create(path) succeeds: the file is writable, or can be made.
CanCreate(f) == IF f.exists THEN f.mode \in {"rw", "wonly"} ELSE f.dirWritable

\* The file would be opened for writing without being truncated.
CreatedNoTrunc(f) == [f EXCEPT !.exists = TRUE, !.mode = IF f.exists THEN f.mode ELSE "rw"]

\* File::create: O_CREAT | O_TRUNC, a new file is readable and writable.
Created(f) ==
  [f EXCEPT !.exists = TRUE, !.mode = IF f.exists THEN f.mode ELSE "rw",
            !.content = <<>>]

\* write(2) of one chunk at offset off of a descriptor without O_APPEND.
WriteAt(content, off, chunk) ==
  IF off < Len(content) THEN [content EXCEPT ![off + 1] = chunk]
  ELSE content \o [i \in 1..(off - Len(content)) |-> Nul] \o <<chunk>>

\* ------------------------------------------------------------------ state
\* Invocations of the plugin: slot 1 runs them one after another; slot 2 is
\* a second process started while slot 1 may still be running.
Procs == {1, 2}

VARIABLES
  env,      \* the environment: emails, MUNIN_PLUGSTATE
  runs,     \* invocations started so far
  file,     \* <state-dir>/pgp_expiration
  pc,       \* per invocation: where it stands
  args,     \* per invocation: its command line
  stage,    \* per invocation: the call of main it is in: "cron", "config", "fetch"
  now,      \* per invocation: `now` of the running cron()
  emails,   \* per invocation: `emails` of the running cron()
  results,  \* per invocation: `results` (of cron(), then of config()/fetch())
  inflight, \* per invocation: the address whose GET request is awaited, if any
  wpos,     \* per invocation: chunks written through the open state file
  out,      \* per invocation: lines printed on stdout
  err,      \* per invocation: the context of the error main returned
  hist,     \* per invocation: what it did so far (batches, requests, file calls)
  order,    \* how the saves went: the last to finish, its text (until the
            \* next File::create), and any overlap
  prev,     \* what the last invocation that exited was
  call      \* one call of a function on its own: arguments and return value

vars ==
  <<env, runs, file, pc, args, stage, now, emails, results, inflight, wpos, out, err,
    hist, order, prev, call>>

NoHist ==
  [batches |-> 0, requests |-> 0, opens |-> 0, creates |-> 0, writes |-> 0,
   openErr |-> "", loaded |-> FALSE, saved |-> <<>>, lookups |-> <<>>,
   overwrote |-> FALSE]

\* No save has completed yet.
NoOrder == [last |-> 0, overlap |-> FALSE, saved |-> <<>>]

\* No function is called on its own: the plugin runs as a whole.
NoCall ==
  [fn |-> "-", stage |-> "-", text |-> <<>>, snapshot |-> <<>>, cert |-> <<>>,
   now |-> 0, fieldname |-> <<>>, stored |-> <<>>, loaded |-> <<>>, days |-> OkNone]

Init ==
  /\ env \in [emails : EmailsValues, plugstate : PlugStateValues]
  /\ runs = 0
  /\ file \in InitialFiles
  /\ pc = [p \in Procs |-> "idle"]
  /\ args = [p \in Procs |-> <<>>]
  /\ stage = [p \in Procs |-> "-"]
  /\ now = [p \in Procs |-> 0]
  /\ emails = [p \in Procs |-> <<>>]
  /\ results = [p \in Procs |-> <<>>]
  /\ inflight = [p \in Procs |-> FALSE]
  /\ wpos = [p \in Procs |-> 0]
  /\ out = [p \in Procs |-> <<>>]
  /\ err = [p \in Procs |-> ""]
  /\ hist = [p \in Procs |-> NoHist]
  /\ order = NoOrder
  /\ prev = "none"
  /\ call = NoCall

\* main returns Err(context): nothing more is printed, exit code 1.
Fails(p, context) ==
  /\ pc' = [pc EXCEPT ![p] = "failed"]
  /\ err' = [err EXCEPT ![p] = context]

\* ------------------------------------------------------------------- main
\* main's match on the arguments: the first call it makes.
FirstCall(a) ==
  IF Len(a) = 1 /\ a[1] = "config" THEN "config"
  ELSE IF Len(a) = 1 /\ a[1] = "cron" THEN "cron"
  ELSE "fetch"

\* The process starts: main dispatches to config(), cron() or fetch().
Main(p, a) ==
  /\ pc[p] = "idle"
  /\ runs < MaxRuns
  /\ runs' = runs + 1
  /\ args' = [args EXCEPT ![p] = a]
  /\ stage' = [stage EXCEPT ![p] = FirstCall(a)]
  /\ pc' = [pc EXCEPT ![p] = IF FirstCall(a) = "cron" THEN "cron" ELSE "get_results"]
  /\ UNCHANGED <<call, env, file, now, emails, results, inflight, wpos, out, err, hist, order, prev>>

\* get_results(), called first thing by config() and fetch(): the state file
\* name, File::open, then either from_reader or cron().
GetResults(p) ==
  /\ pc[p] = "get_results"
  /\ IF ~env.plugstate.set
       THEN /\ Fails(p, "Failed to get env MUNIN_PLUGSTATE")
            /\ UNCHANGED <<results, hist>>
     ELSE IF OpenResult(file) = "Ok"
       THEN IF Parses(file.content)
              THEN /\ results' = [results EXCEPT ![p] = De(file.content)]
                   /\ pc' = [pc EXCEPT ![p] = "render"]
                   /\ hist' = [hist EXCEPT ![p].opens = @ + 1, ![p].loaded = TRUE]
                   /\ UNCHANGED err
              ELSE /\ Fails(p, "Failed to read state file")
                   /\ hist' = [hist EXCEPT ![p].opens = @ + 1]
                   /\ UNCHANGED results
     ELSE /\ pc' = [pc EXCEPT ![p] = "cron"]
          /\ hist' = [hist EXCEPT ![p].opens = @ + 1, ![p].openErr = OpenResult(file)]
          /\ UNCHANGED <<results, err>>
  /\ UNCHANGED <<call, env, runs, file, args, stage, now, emails, inflight, wpos, out, order, prev>>

\* ------------------------------------------------------------------- cron
\* cron() up to the stream: Utc::now(), then env::var("emails") and split.
CronBegin(p, t) ==
  /\ pc[p] = "cron"
  /\ now' = [now EXCEPT ![p] = t]
  /\ IF ~env.emails.set
       THEN /\ Fails(p, "Failed to get env emails")
            /\ UNCHANGED <<emails, results, hist>>
       ELSE /\ emails' = [emails EXCEPT ![p] = SplitSpaces(env.emails.val)]
            /\ results' = [results EXCEPT ![p] = <<>>]
            /\ pc' = [pc EXCEPT ![p] = "batch"]
            /\ hist' = [hist EXCEPT ![p].batches = @ + 1, ![p].lookups = <<>>]
            /\ UNCHANGED err
  /\ UNCHANGED <<call, env, runs, file, args, stage, inflight, wpos, out, order, prev>>

\* A finished item would be pushed in front of the earlier ones.
CollectReversed(rs, k) == <<k>> \o rs

\* A failed item would be dropped, and its address evaluated again.
CollectRetry(rs, k) == IF IsFailed(k) THEN rs ELSE Append(rs, k)

\* .collect::<Vec<_>>(): the stream's items in the order it yields them.
Collect(rs, k) == Append(rs, k)

\* The index of the address stream::iter(emails).then(..) works on: `then`
\* polls the next item only when the future of the current one is done.
Current(p) == Len(results[p]) + 1

\* The closure is called for the next address and runs to its first await:
\* an address that does not parse fails at once, otherwise the GET is sent.
StartEval(p) ==
  /\ pc[p] = "batch"
  /\ ~inflight[p]
  /\ Current(p) <= Len(emails[p])
  /\ LET e == emails[p][Current(p)] IN
     IF WkdUrlParses(e)
       THEN /\ inflight' = [inflight EXCEPT ![p] = TRUE]
            /\ hist' = [hist EXCEPT ![p].requests = @ + 1]
            /\ UNCHANGED results
       ELSE /\ results' =
                 [results EXCEPT
                    ![p] = Collect(@, KeyInfo(e, get_days_to_expiration(e, NoRequest, now[p])))]
            /\ hist' = [hist EXCEPT ![p].lookups = Append(@, NoRequest)]
            /\ UNCHANGED inflight
  /\ UNCHANGED <<call, env, runs, file, pc, args, stage, now, emails, wpos, out, err, order, prev>>

\* The awaited request ends (response or error): the closure builds the
\* KeyInfo and collect pushes it.
Respond(p, resp) ==
  /\ pc[p] = "batch"
  /\ inflight[p]
  /\ LET e == emails[p][Current(p)] IN
     results' = [results EXCEPT ![p] = Collect(@, KeyInfo(e, get_days_to_expiration(e, resp, now[p])))]
  /\ inflight' = [inflight EXCEPT ![p] = FALSE]
  /\ hist' = [hist EXCEPT ![p].lookups = Append(@, resp)]
  /\ UNCHANGED <<call, env, runs, file, pc, args, stage, now, emails, wpos, out, err, order, prev>>

\* The server never answers: there is no timeout, the process waits forever.
Stall(p) ==
  /\ pc[p] = "batch"
  /\ inflight[p]
  /\ pc' = [pc EXCEPT ![p] = "stalled"]
  /\ UNCHANGED <<call, env, runs, file, args, stage, now, emails, results, inflight, wpos, out, err, hist, order, prev>>

\* After collect: get_state_filename()? and File::create(..).
Create(p) ==
  /\ pc[p] = "batch"
  /\ ~inflight[p]
  /\ Current(p) > Len(emails[p])
  /\ IF ~env.plugstate.set
       THEN /\ Fails(p, "Failed to get env MUNIN_PLUGSTATE")
            /\ UNCHANGED <<file, wpos, hist, order>>
     ELSE IF CanCreate(file)
       THEN /\ file' = Created(file)
            /\ wpos' = [wpos EXCEPT ![p] = 0]
            /\ pc' = [pc EXCEPT ![p] = "write"]
            /\ hist' = [hist EXCEPT ![p].creates = @ + 1,
                                     ![p].overwrote = file.exists /\ file.content # <<>>]
            /\ order' = [order EXCEPT !.overlap = @ \/ \E q \in Procs \ {p} : pc[q] = "write",
                                       !.saved = <<>>]
            /\ UNCHANGED err
     ELSE /\ Fails(p, "Failed to create state file")
          /\ hist' = [hist EXCEPT ![p].creates = @ + 1]
          /\ UNCHANGED <<file, wpos, order>>
  /\ UNCHANGED <<call, env, runs, args, stage, now, emails, results, inflight, out, prev>>

\* Where cron() returns Ok(results) to: main, or get_results() and with it
\* config() or fetch().
AfterCron(p) == IF stage[p] = "cron" THEN "done" ELSE "render"

\* to_writer_pretty writes the next chunk; after the last one cron returns.
Write(p) ==
  /\ pc[p] = "write"
  /\ LET text == Ser(results[p]) IN
     /\ file' = [file EXCEPT !.content = WriteAt(@, wpos[p], text[wpos[p] + 1])]
     /\ wpos' = [wpos EXCEPT ![p] = @ + 1]
     /\ IF wpos[p] + 1 = Len(text)
          THEN /\ pc' = [pc EXCEPT ![p] = AfterCron(p)]
               /\ hist' = [hist EXCEPT ![p].writes = @ + 1, ![p].saved = text]
               /\ order' = [order EXCEPT !.last = p, !.saved = text]
          ELSE /\ hist' = [hist EXCEPT ![p].writes = @ + 1]
               /\ UNCHANGED <<pc, order>>
  /\ UNCHANGED <<call, env, runs, args, stage, now, emails, results, inflight, out, err, prev>>

\* A write call fails (disk full, I/O error).
WriteFail(p) ==
  /\ pc[p] = "write"
  /\ Fails(p, "Failed to write state file")
  /\ UNCHANGED <<call, env, runs, file, args, stage, now, emails, results, inflight, wpos, out, hist, order, prev>>

\* --------------------------------------------------------- config, fetch
\* env::var("MUNIN_CAP_DIRTYCONFIG").unwrap_or_default() == "1"
DirtyConfig(dirty) == (IF dirty.set THEN dirty.val ELSE <<>>) = <<"1">>

\* config() after get_results: print; then main calls fetch() when
\* MUNIN_CAP_DIRTYCONFIG is "1".
Config(p, dirty) ==
  /\ pc[p] = "render"
  /\ stage[p] = "config"
  /\ out' = [out EXCEPT ![p] = @ \o ConfigLines(results[p])]
  /\ IF DirtyConfig(dirty)
       THEN /\ stage' = [stage EXCEPT ![p] = "fetch"]
            /\ pc' = [pc EXCEPT ![p] = "get_results"]
       ELSE /\ pc' = [pc EXCEPT ![p] = "done"]
            /\ UNCHANGED stage
  /\ UNCHANGED <<call, env, runs, file, args, now, emails, results, inflight, wpos, err, hist, order, prev>>

\* fetch() after get_results: print the values.
Fetch(p) ==
  /\ pc[p] = "render"
  /\ stage[p] = "fetch"
  /\ out' = [out EXCEPT ![p] = @ \o FetchLines(results[p])]
  /\ pc' = [pc EXCEPT ![p] = "done"]
  /\ UNCHANGED <<call, env, runs, file, args, stage, now, emails, results, inflight, wpos, err, hist, order, prev>>

\* What is remembered of an invocation that exited.
Summary(p) ==
  IF pc[p] = "done" /\ FirstCall(args[p]) = "fetch" /\ hist[p].openErr = "NotFound"
    THEN "cold_fetch"
  ELSE "other"

\* The process exits; the slot is free for the next invocation.
Exit(p) ==
  /\ pc[p] \in {"done", "failed"}
  /\ prev' = Summary(p)
  /\ pc' = [pc EXCEPT ![p] = "idle"]
  /\ args' = [args EXCEPT ![p] = <<>>]
  /\ stage' = [stage EXCEPT ![p] = "-"]
  /\ now' = [now EXCEPT ![p] = 0]
  /\ emails' = [emails EXCEPT ![p] = <<>>]
  /\ results' = [results EXCEPT ![p] = <<>>]
  /\ wpos' = [wpos EXCEPT ![p] = 0]
  /\ out' = [out EXCEPT ![p] = <<>>]
  /\ err' = [err EXCEPT ![p] = ""]
  /\ hist' = [hist EXCEPT ![p] = NoHist]
  /\ UNCHANGED <<call, env, runs, file, inflight, order>>

Step(p) ==
  \/ \E a \in ArgLists : Main(p, a)
  \/ GetResults(p)
  \/ \E t \in Times : CronBegin(p, t)
  \/ StartEval(p)
  \/ \E resp \in Responses : Respond(p, resp)
  \/ Stall(p)
  \/ Create(p)
  \/ Write(p)
  \/ WriteFail(p)
  \/ \E dirty \in DirtyValues : Config(p, dirty)
  \/ Fetch(p)
  \/ Exit(p)

\* Invocations one after another, as the munin node runs its plugins.
Next == Step(1)

Spec == Init /\ [][Next]_vars

\* Invocations one after another whose saves all run to completion: no write
\* fails, and the state file found at the start is absent or complete.
SerialInit ==
  /\ Init
  /\ file.exists => file.content = Ser(OldSnapshot)

SerialNext ==
  \/ \E a \in ArgLists : Main(1, a)
  \/ GetResults(1)
  \/ \E t \in Times : CronBegin(1, t)
  \/ StartEval(1)
  \/ \E resp \in Responses : Respond(1, resp)
  \/ Stall(1)
  \/ Create(1)
  \/ Write(1)
  \/ \E dirty \in DirtyValues : Config(1, dirty)
  \/ Fetch(1)
  \/ Exit(1)

SerialSpec == SerialInit /\ [][SerialNext]_vars

\* Two `cron` invocations against the same state directory at the same time.
CronStep(p) ==
  \/ Main(p, <<"cron">>)
  \/ \E t \in Times : CronBegin(p, t)
  \/ StartEval(p)
  \/ \E resp \in RaceResponses : Respond(p, resp)
  \/ Stall(p)
  \/ Create(p)
  \/ Write(p)
  \/ WriteFail(p)
  \/ Exit(p)

RaceNext == \E p \in Procs : CronStep(p)

\* The race is explored with the state directory configured and writable.
RaceInit ==
  /\ Init
  /\ env.plugstate.set
  /\ file \in {FileAbsent(TRUE), FilePresent("rw", Ser(OldSnapshot))}

RaceSpec == RaceInit /\ [][RaceNext]_vars

\* Rendering of cached snapshots: config and fetch over every snapshot of
\* Snapshots found in the state file.
RenderInit ==
  /\ env \in [emails : {EnvVar(FALSE, <<>>), EnvVar(TRUE, AddrGood)},
               plugstate : {EnvVar(TRUE, <<"d">>)}]
  /\ runs = 0
  /\ file \in {FilePresent("rw", Ser(S)) : S \in Snapshots}
  /\ pc = [p \in Procs |-> "idle"]
  /\ args = [p \in Procs |-> <<>>]
  /\ stage = [p \in Procs |-> "-"]
  /\ now = [p \in Procs |-> 0]
  /\ emails = [p \in Procs |-> <<>>]
  /\ results = [p \in Procs |-> <<>>]
  /\ inflight = [p \in Procs |-> FALSE]
  /\ wpos = [p \in Procs |-> 0]
  /\ out = [p \in Procs |-> <<>>]
  /\ err = [p \in Procs |-> ""]
  /\ hist = [p \in Procs |-> NoHist]
  /\ order = NoOrder
  /\ prev = "none"
  /\ call = NoCall

RenderNext ==
  \/ \E a \in {<<>>, <<"config">>, <<"fetch">>} : Main(1, a)
  \/ GetResults(1)
  \/ \E dirty \in DirtyValues : Config(1, dirty)
  \/ Fetch(1)
  \/ Exit(1)

RenderSpec == RenderInit /\ [][RenderNext]_vars

\* ------------------------------------------------- functions on their own
\* The characters the texts are made of: letters, a digit, the underscore,
\* and the two separators of an address.
FieldChars == {"a", "Z", "7", "_", ".", "@"}

\* The argument of the unit test of the source.
TestText ==
  <<"f","o","o",".","b","a","r","@","e","x","a","m","p","l","e",".","c","o","m">>

FieldTexts == UNION {[1..n -> FieldChars] : n \in 0..MaxText} \cup {TestText}

CleanCalls == {[NoCall EXCEPT !.fn = "clean_fieldname", !.stage = "called", !.text = t] :
                 t \in FieldTexts}

\* The snapshots saved and loaded on their own.
CodecSnapshots == Snapshots \cup {OldSnapshot}

CodecCalls == {[NoCall EXCEPT !.fn = "save_load", !.stage = "called", !.snapshot = S] :
                 S \in CodecSnapshots}

\* Expiration times and reference times of the evaluator on its own: the
\* differences are whole and broken numbers of days on both sides of zero.
EvalExps ==
  {0 - 2 * SecsPerDay, 0 - (SecsPerDay \div 4), SecsPerDay,
   3 * SecsPerDay + (SecsPerDay \div 2)}

EvalTimes == {0, SecsPerDay \div 2}

EvalKeys ==
  {Key(v, r, FALSE, 0) : v \in BOOLEAN, r \in BOOLEAN} \cup
  {Key(v, r, TRUE, t) : v \in BOOLEAN, r \in BOOLEAN, t \in EvalExps}

\* A certificate has its primary key and up to MaxKeys - 1 subkeys.
EvalCerts == UNION {[1..n -> EvalKeys] : n \in 1..MaxKeys}

EvalCalls ==
  {[NoCall EXCEPT !.fn = "get_days_to_expiration", !.stage = "called", !.cert = c, !.now = t] :
     c \in EvalCerts, t \in EvalTimes}

FnCalls == CleanCalls \cup CodecCalls \cup EvalCalls

\* Every variable of the plugin at rest, and one function about to be called.
FnInit ==
  /\ env = [emails |-> EnvVar(FALSE, <<>>), plugstate |-> EnvVar(TRUE, <<"d">>)]
  /\ runs = 0
  /\ file = FileAbsent(TRUE)
  /\ pc = [p \in Procs |-> "idle"]
  /\ args = [p \in Procs |-> <<>>]
  /\ stage = [p \in Procs |-> "-"]
  /\ now = [p \in Procs |-> 0]
  /\ emails = [p \in Procs |-> <<>>]
  /\ results = [p \in Procs |-> <<>>]
  /\ inflight = [p \in Procs |-> FALSE]
  /\ wpos = [p \in Procs |-> 0]
  /\ out = [p \in Procs |-> <<>>]
  /\ err = [p \in Procs |-> ""]
  /\ hist = [p \in Procs |-> NoHist]
  /\ order = NoOrder
  /\ prev = "none"
  /\ call \in FnCalls

Plugin ==
  <<env, runs, file, pc, args, stage, now, emails, results, inflight, wpos, out, err,
    hist, order, prev>>

\* clean_fieldname(text) returns.
CleanFieldname ==
  /\ call.fn = "clean_fieldname"
  /\ call.stage = "called"
  /\ call' = [call EXCEPT !.fieldname = clean_fieldname(call.text), !.stage = "returned"]
  /\ UNCHANGED Plugin

\* ron::ser::to_writer_pretty(file, &results): the whole text is written.
Save ==
  /\ call.fn = "save_load"
  /\ call.stage = "called"
  /\ call' = [call EXCEPT !.stored = Ser(call.snapshot), !.stage = "saved"]
  /\ UNCHANGED Plugin

\* ron::de::from_reader(f) on the text that was saved.
Load ==
  /\ call.fn = "save_load"
  /\ call.stage = "saved"
  /\ IF Parses(call.stored)
       THEN call' = [call EXCEPT !.loaded = De(call.stored), !.stage = "loaded"]
       ELSE call' = [call EXCEPT !.stage = "Failed to read state file"]
  /\ UNCHANGED Plugin

\* get_days_to_expiration(email, ..) returns for an address whose request
\* delivered the certificate.
Evaluate ==
  /\ call.fn = "get_days_to_expiration"
  /\ call.stage = "called"
  /\ call' = [call EXCEPT
                !.days = get_days_to_expiration(AddrGood, Delivers(call.cert), call.now),
                !.stage = "returned"]
  /\ UNCHANGED Plugin

FnNext ==
  \/ CleanFieldname
  \/ Save
  \/ Load
  \/ Evaluate

FnSpec == FnInit /\ [][FnNext]_vars

\* ================================================================ claims
\* An invocation of the value-emission verb that found no state file.
ColdFetch(p) == FirstCall(args[p]) = "fetch" /\ hist[p].openErr = "NotFound"

\* C1 -- Cold-start fallback. A fetch that finds no state file runs at most
\* one batch, and exactly one unless `emails` is unset; when it completes,
\* the state file holds the serialized result of that batch and the lines it
\* printed are the lines a fetch prints from that file; the fetch that
\* follows it loads the file, runs no batch, sends no request and prints the
\* same lines.
C1_ColdStartFallback ==
  /\ ColdFetch(1) =>
       /\ hist[1].batches <= 1
       /\ pc[1] \notin {"get_results", "cron"} =>
            (hist[1].batches = 1 \/ err[1] = "Failed to get env emails")
  /\ (ColdFetch(1) /\ pc[1] = "done") =>
       /\ hist[1].batches = 1
       /\ file.content = Ser(results[1])
       /\ OpenResult(file) = "Ok"
       /\ Parses(file.content)
       /\ out[1] = FetchLines(De(file.content))
  /\ (prev = "cold_fetch" /\ FirstCall(args[1]) = "fetch" /\ pc[1] \in {"done", "failed", "stalled"}) =>
       /\ pc[1] = "done"
       /\ hist[1].batches = 0
       /\ hist[1].requests = 0
       /\ hist[1].loaded
       /\ out[1] = FetchLines(De(file.content))

\* C1 witness: the fetch after a cold-start fetch has printed values.
C1_Witness ==
  /\ prev = "cold_fetch"
  /\ FirstCall(args[1]) = "fetch"
  /\ pc[1] = "done"
  /\ Len(out[1]) >= 2

\* The outcome the evaluation of address e must have after lookup l at time t.
Failing(e, l) == ~WkdUrlParses(e) \/ l.fail # ""

\* C2 -- Partial-failure isolation. While and after a batch runs, entry i of
\* the results is Failed(message) when the resolution of identity i failed and
\* is the Days/NoExpiration result of its own certificate otherwise; the
\* snapshot that is saved has one entry per identity; and no invocation ends
\* with a per-identity error.
C2_PartialFailureIsolation ==
  \A p \in Procs :
    /\ pc[p] \in {"batch", "write", "stalled"} =>
         /\ Len(results[p]) = Len(hist[p].lookups)
         /\ Len(results[p]) <= Len(emails[p])
         /\ \A i \in 1..Len(results[p]) :
              LET k == results[p][i]
                  l == hist[p].lookups[i]
                  days == Candidates(l.cert, now[p])
              IN IF Failing(emails[p][i], l)
                   THEN IsFailed(k) /\ Len(k.days_to_expiration.msg) >= 3
                   ELSE /\ ~IsFailed(k)
                        /\ IsNoExpiration(k) <=> days = {}
                        /\ IsDays(k) =>
                             /\ k.days_to_expiration.val \in days
                             /\ \A d \in days : k.days_to_expiration.val <= d
    /\ pc[p] = "write" => Len(results[p]) = Len(SplitSpaces(env.emails.val))
    /\ hist[p].saved # <<>> => Len(hist[p].saved) = Len(SplitSpaces(env.emails.val)) + 2
    /\ pc[p] = "failed" =>
         err[p] \in {"Failed to get env MUNIN_PLUGSTATE", "Failed to get env emails",
                     "Failed to create state file", "Failed to write state file",
                     "Failed to read state file"}

\* C2 witness: a saved snapshot of two entries, the first Failed, the second Days.
C2_Witness ==
  /\ pc[1] = "done"
  /\ hist[1].saved = file.content
  /\ Len(results[1]) = 2
  /\ IsFailed(results[1][1])
  /\ hist[1].lookups[1].fail # ""
  /\ IsDays(results[1][2])

\* C3 -- Ordering. Entry i of the results of a batch, and of the snapshot it
\* saves, carries the i-th segment of the `emails` value.
C3_Ordering ==
  LET configured == SplitSpaces(env.emails.val) IN
  \A p \in Procs :
    /\ pc[p] \in {"batch", "write", "stalled"} =>
         \A i \in 1..Len(results[p]) : results[p][i].email = configured[i]
    /\ hist[p].saved # <<>> =>
         LET snapshot == De(hist[p].saved) IN
         /\ Len(snapshot) = Len(configured)
         /\ \A i \in 1..Len(snapshot) : snapshot[i].email = configured[i]

\* C3 witness: a snapshot of two different identities was saved, the second
\* resolved without any request, the first after a request.
C3_Witness ==
  /\ pc[1] = "done"
  /\ hist[1].saved # <<>>
  /\ Len(results[1]) = 2
  /\ results[1][1].email = AddrGood
  /\ results[1][2].email = AddrBad
  /\ hist[1].requests = 1

\* C4 -- Snapshot load distinguishes absence from corruption. An invocation
\* whose File::open failed for another reason than file-not-found, or whose
\* state file did not deserialize, fails without running a batch and without
\* creating (truncating) the state file.
C4_AbsenceVersusCorruption ==
  \A p \in Procs :
    /\ hist[p].openErr \notin {"", "NotFound"} =>
         /\ pc[p] # "done"
         /\ hist[p].batches = 0
         /\ hist[p].creates = 0
    /\ (pc[p] = "failed" /\ err[p] = "Failed to read state file") =>
         /\ hist[p].batches = 0
         /\ hist[p].creates = 0

\* C5 -- Configuration errors abort before any activity. An invocation that
\* ends with a missing-environment error has started no request, has opened
\* no file, and has created or written none.
C5_ConfigErrorsAbortFirst ==
  \A p \in Procs :
    (pc[p] = "failed" /\ err[p] \in {"Failed to get env MUNIN_PLUGSTATE", "Failed to get env emails"}) =>
      /\ hist[p].requests = 0
      /\ ~hist[p].loaded
      /\ hist[p].creates = 0
      /\ hist[p].writes = 0

\* C6 -- Concurrent fan-out. The evaluations of a batch do not wait for
\* one another: an invocation that waits forever on the request of one
\* identity has the outcome of every other identity of the batch.
C6_ConcurrentFanOut ==
  \A p \in Procs :
    pc[p] = "stalled" =>
      \A i \in 1..Len(emails[p]) : i # Current(p) => i <= Len(results[p])

\* C7 -- Forced refresh. A cron invocation that got past reading `emails` has
\* started exactly one batch, whatever the state file held; when it has
\* completed, the state file holds exactly the serialized outcomes of that
\* batch, one per segment of `emails` and in their order.
C7_ForcedRefresh ==
  (pc[1] # "idle" /\ FirstCall(args[1]) = "cron") =>
    /\ pc[1] \in {"batch", "write", "done", "stalled"} => hist[1].batches = 1
    /\ pc[1] = "done" =>
         /\ hist[1].creates = 1
         /\ file.content = Ser(results[1])
         /\ Parses(file.content)
         /\ LET stored == De(file.content)
                configured == SplitSpaces(env.emails.val)
            IN /\ Len(stored) = Len(configured)
               /\ \A i \in 1..Len(stored) :
                    /\ stored[i] = results[1][i]
                    /\ stored[i].email = configured[i]

\* C7 witness: a cron completed over a state file that held a longer snapshot.
C7_Witness ==
  /\ FirstCall(args[1]) = "cron"
  /\ pc[1] = "done"
  /\ hist[1].overwrote
  /\ Len(results[1]) = 1
  /\ runs = 1

\* The entries of a snapshot that are not NoExpiration, and the position of
\* entry i among them.
Kept(R) == {i \in 1..Len(R) : ~IsNoExpiration(R[i])}
Rank(R, i) == Cardinality({k \in Kept(R) : k <= i})

\* C8 -- Value mode rendering. What a fetch invocation has printed when it
\* completes is, in snapshot order, one value line per entry that is not
\* NoExpiration: the day count of a Days entry, unchanged also when negative,
\* and -999 for a Failed entry.
C8_ValueMode ==
  (pc[1] = "done" /\ FirstCall(args[1]) = "fetch") =>
    LET R == results[1]
        O == out[1]
    IN /\ Len(O) = Cardinality(Kept(R))
       /\ \A i \in Kept(R) :
            /\ O[Rank(R, i)].kind = "value"
            /\ O[Rank(R, i)].field = <<"_">> \o clean_fieldname(R[i].email)
            /\ IsDays(R[i]) => O[Rank(R, i)].value = R[i].days_to_expiration.val
            /\ IsFailed(R[i]) => O[Rank(R, i)].value = -999

\* C8 witness: a fetch printed a negative day count and the sentinel, and
\* skipped a NoExpiration entry.
C8_Witness ==
  /\ pc[1] = "done"
  /\ FirstCall(args[1]) = "fetch"
  /\ Len(results[1]) = 2
  /\ \E i, j \in 1..Len(out[1]) : out[1][i].value = 0 - 2 /\ out[1][j].value = -999
  /\ hist[1].loaded

\* C8 second witness: a NoExpiration entry between the printed ones is skipped.
C8_WitnessOmitted ==
  /\ pc[1] = "done"
  /\ FirstCall(args[1]) = "fetch"
  /\ Len(results[1]) = 2
  /\ IsNoExpiration(results[1][1])
  /\ Len(out[1]) = 1

IsLabel(l) == l.kind = "label"

\* C9 -- Configuration mode omission. What config() has printed holds, in
\* snapshot order, exactly one record (one label line) per entry that is Days
\* or Failed, and no line for a NoExpiration entry.
C9_ConfigModeOmission ==
  (pc[1] = "done" /\ FirstCall(args[1]) = "config" /\ stage[1] = "config") =>
    LET R == results[1]
        O == out[1]
        labels == SelectSeq(O, IsLabel)
    IN /\ Len(labels) = Cardinality(Kept(R))
       /\ \A i \in Kept(R) :
            /\ labels[Rank(R, i)].email = R[i].email
            /\ labels[Rank(R, i)].field = <<"_">> \o clean_fieldname(R[i].email)
       /\ \A n \in 3..Len(O) :
            \E i \in Kept(R) : O[n].field = <<"_">> \o clean_fieldname(R[i].email)
       /\ Kept(R) = {} => Len(O) = 2

\* C9 witness: config printed one record for a Failed entry and none for the
\* NoExpiration entry before it.
C9_Witness ==
  /\ pc[1] = "done"
  /\ FirstCall(args[1]) = "config"
  /\ stage[1] = "config"
  /\ Len(results[1]) = 2
  /\ IsNoExpiration(results[1][1])
  /\ IsFailed(results[1][2])
  /\ Len(SelectSeq(out[1], IsLabel)) = 1

\* Both invocations have completed a cron.
BothDone == \A p \in Procs : pc[p] = "done" /\ FirstCall(args[p]) = "cron"

\* C10 as claimed -- Racing refreshes are last-writer-wins: when two cron
\* invocations have both completed, the state file holds exactly the
\* snapshot one of them wrote.
C10_LastWriterWins ==
  BothDone => \E p \in Procs : file.content = hist[p].saved

\* C10 as amended -- when two cron invocations have both completed and no
\* File::create fell between the File::create and the last write of another
\* invocation, the state file holds exactly the snapshot of the one that
\* finished writing last.
C10_LastWriterWinsSerialSaves ==
  (BothDone /\ ~order.overlap) =>
    /\ order.last \in Procs
    /\ file.content = hist[order.last].saved
    /\ Parses(file.content)

\* C10 witness: both completed without overlap, with different snapshots.
C10_Witness ==
  /\ BothDone
  /\ ~order.overlap
  /\ hist[1].saved # hist[2].saved
  /\ Len(hist[1].saved) >= 3

FieldAllowed == Letters \cup Digits \cup {"_"}

CachedSnapshot ==
  /\ env.plugstate.set
  /\ file.exists
  /\ file.mode \in {"rw", "ronly"}
  /\ Parses(file.content)

\* C12 -- Cached emission does no network I/O and no writes. No step of a
\* config or fetch invocation taken while a readable, well-formed snapshot
\* file is present changes the file, starts a batch or a request, creates or
\* writes a file, or fails, whether `emails` is set or not.
C12_CachedEmission ==
  [][(pc[1] \notin {"idle", "done", "failed"} /\ FirstCall(args[1]) # "cron" /\ CachedSnapshot) =>
       /\ file' = file
       /\ hist'[1].batches = hist[1].batches
       /\ hist'[1].requests = hist[1].requests
       /\ hist'[1].creates = hist[1].creates
       /\ hist'[1].writes = hist[1].writes
       /\ pc'[1] \in {"render", "get_results", "done"}]_vars

\* C12 witness: with `emails` unset, config printed the records and the
\* values of the cached snapshot, without a batch, and the file is as it was.
C12_Witness ==
  /\ ~env.emails.set
  /\ FirstCall(args[1]) = "config"
  /\ stage[1] = "fetch"
  /\ pc[1] = "done"
  /\ runs = 1
  /\ file = FilePresent("ronly", Ser(OldSnapshot))
  /\ hist[1].opens = 2
  /\ hist[1].batches = 0
  /\ hist[1].requests = 0
  /\ Len(out[1]) = 11

LabelAt(O) == {n \in 1..Len(O) : O[n].kind = "label"}

RecordOf(O, r) ==
  LET first == CHOOSE n \in LabelAt(O) : Cardinality({m \in LabelAt(O) : m <= n}) = r
      later == {n \in LabelAt(O) : n > first}
      last == IF later = {} THEN Len(O) ELSE (CHOOSE n \in later : \A m \in later : n <= m) - 1
  IN SubSeq(O, first, last)

KindsOf(rec) == [n \in 1..Len(rec) |-> rec[n].kind]

\* config() alone has completed.
ConfigDone == pc[1] = "done" /\ FirstCall(args[1]) = "config" /\ stage[1] = "config"

WholeDays(x, m) ==
  IF x >= 0
    THEN m >= 0 /\ m * SecsPerDay <= x /\ x < (m + 1) * SecsPerDay
    ELSE m <= 0 /\ (m - 1) * SecsPerDay < x /\ x <= m * SecsPerDay

\* The keys that satisfy the policy, are not revoked and declare an expiration.
Eligible(cert) ==
  {i \in 1..Len(cert) : cert[i].valid /\ ~cert[i].revoked /\ cert[i].hasExp}

IsEligible(key) == key.valid /\ ~key.revoked /\ key.hasExp

\* C15 -- Evaluator reduction. For a certificate that was delivered, the
\* result is never Failed; it is NoExpiration exactly when no key satisfies
\* the policy, is not revoked and declares an expiration; otherwise it is
\* Days(m), m being the whole days (truncated toward zero, negative when
\* expired) to the expiration of one such key and at most those of every
\* such key; and the result is that of the certificate without its revoked
\* or policy-failing keys.
C15_EvaluatorReduction ==
  (call.fn = "get_days_to_expiration" /\ call.stage = "returned") =>
    LET cert == call.cert
        d == call.days
    IN /\ d.tag = "Ok"
       /\ d.opt = "None" <=> Eligible(cert) = {}
       /\ d.opt = "Some" =>
            /\ \E i \in Eligible(cert) : WholeDays(cert[i].exp - call.now, d.val)
            /\ \A i \in Eligible(cert) :
                 \E m \in (0 - 4)..4 : WholeDays(cert[i].exp - call.now, m) /\ d.val <= m
       /\ d = get_days_to_expiration(AddrGood, Delivers(SelectSeq(cert, IsEligible)), call.now)

\* C15 witness: the minimum is the negative count of a key that expired two
\* and a half days before the reference time, beside a key still to expire.
C15_Witness ==
  /\ call.fn = "get_days_to_expiration"
  /\ call.stage = "returned"
  /\ call.now = SecsPerDay \div 2
  /\ call.cert = <<Key(TRUE, FALSE, TRUE, SecsPerDay),
                    Key(TRUE, FALSE, TRUE, 0 - 2 * SecsPerDay)>>
  /\ call.days = OkSome(0 - 2)

\* C16 -- Single attempt per identity. In a batch, the evaluations started
\* so far are those of the first positions of the segment list, one each:
\* every finished one has its entry, built from its one lookup, which sent
\* a request exactly when the address parsed; at most one more is awaited;
\* when the batch is saved every position has exactly one entry, also a
\* position that repeats an earlier address; and the requests of an
\* invocation with one batch are as many as the lookups that sent one.
C16_SingleAttempt ==
  \A p \in Procs :
    pc[p] \in {"batch", "write", "stalled"} =>
      LET E == emails[p]
          R == results[p]
          L == hist[p].lookups
          awaited == IF inflight[p] THEN 1 ELSE 0
          sent == Cardinality({i \in 1..Len(L) : L[i] # NoRequest})
      IN /\ Len(L) = Len(R)
         /\ Len(L) + awaited <= Len(E)
         /\ \A i \in 1..Len(L) :
              /\ L[i] # NoRequest <=> WkdUrlParses(E[i])
              /\ R[i] = KeyInfo(E[i], get_days_to_expiration(E[i], L[i], now[p]))
         /\ inflight[p] => WkdUrlParses(E[Len(L) + 1])
         /\ hist[p].batches = 1 => hist[p].requests = sent + awaited
         /\ pc[p] = "write" => Len(R) = Len(E)

\* C16 witness: the same address twice; the first request failed, the
\* second delivered a certificate; two requests, two entries.
C16_Witness ==
  /\ pc[1] = "write"
  /\ emails[1] = <<AddrGood, AddrGood>>
  /\ Len(results[1]) = 2
  /\ IsFailed(results[1][1])
  /\ IsDays(results[1][2])
  /\ hist[1].requests = 2
  /\ hist[1].batches = 1

\* The text of the most recent save that ran to completion: the one the
\* state file was found with as long as no invocation has saved. (While a
\* later save is under way, order.saved is empty.)
MostRecentSave == IF order.last = 0 THEN Ser(OldSnapshot) ELSE order.saved

\* C17 -- No partial reads under serial operation. With invocations one
\* after another and saves that run to completion, the state file, whenever
\* no save is under way, is absent or holds exactly the complete text of
\* the most recent save; what a load returned is the snapshot of that save;
\* and no load fails on a text that does not parse.
C17_NoPartialReads ==
  LET recent == MostRecentSave IN
  /\ (pc[1] # "write" /\ file.exists) =>
       /\ file.content = recent
       /\ Parses(file.content)
  /\ (pc[1] = "render" /\ hist[1].loaded) =>
       results[1] = De(recent)
  /\ pc[1] = "failed" => err[1] # "Failed to read state file"

\* C17 witness: a fetch loaded the snapshot an earlier invocation saved over
\* the snapshot found at the start.
C17_Witness ==
  /\ runs = 2
  /\ pc[1] = "render"
  /\ stage[1] = "fetch"
  /\ hist[1].loaded
  /\ hist[1].batches = 0
  /\ order.last = 1
  /\ Len(order.saved) = 4
  /\ results[1] = De(order.saved)
  /\ results[1] # OldSnapshot

FieldsOf(O, kind) == {O[n].field : n \in {m \in 1..Len(O) : O[m].kind = kind}}

\* C18 -- Dirty-config consistency. A config invocation runs at most one
\* batch, and none once config() has returned and fetch() is running; when
\* it has completed with the values, the value lines come after all the
\* configuration lines, the fields that got a value line are the fields
\* that got a label line, and both parts are rendered from one snapshot.
C18_DirtyConfigConsistency ==
  (FirstCall(args[1]) = "config" /\ pc[1] # "idle") =>
    /\ hist[1].batches <= 1
    /\ stage[1] = "fetch" => pc[1] \notin {"cron", "batch", "write", "stalled"}
    /\ (stage[1] = "fetch" /\ pc[1] = "done") =>
         LET O == out[1] IN
         /\ \A m, n \in 1..Len(O) : (O[m].kind = "value" /\ O[n].kind # "value") => n < m
         /\ FieldsOf(O, "value") = FieldsOf(O, "label")
         /\ O = ConfigLines(results[1]) \o FetchLines(results[1])

\* The lines of kind `kind` among the lines of O after the first n.
Added(O, n, kind) == Cardinality({m \in (n + 1)..Len(O) : O[m].kind = kind})

\* C19 -- All-or-nothing emission. An invocation that failed has its error
\* and has printed nothing in the call that failed: nothing at all, or, when
\* it is the fetch() after a config() that returned, the configuration
\* lines and no value line. And a call that has its snapshot cannot fail:
\* its next step prints the header (config) and one record per entry that
\* is not NoExpiration, Failed entries included, and returns.
C19_AllOrNothing ==
  /\ [](pc[1] = "failed" =>
          /\ err[1] # ""
          /\ IF FirstCall(args[1]) = "config" /\ stage[1] = "fetch"
               THEN /\ Len(out[1]) >= 2
                    /\ FieldsOf(out[1], "value") = {}
               ELSE out[1] = <<>>)
  /\ [][pc[1] = "render" =>
          /\ pc'[1] \in {"done", "get_results"}
          /\ err'[1] = ""
          /\ SubSeq(out'[1], 1, Len(out[1])) = out[1]
          /\ IF stage[1] = "config"
               THEN /\ Added(out'[1], Len(out[1]), "graph_title") = 1
                    /\ Added(out'[1], Len(out[1]), "label") = Cardinality(Kept(results[1]))
                    /\ Added(out'[1], Len(out[1]), "value") = 0
               ELSE /\ Added(out'[1], Len(out[1]), "value") = Cardinality(Kept(results[1]))
                    /\ Len(out'[1]) = Len(out[1]) + Cardinality(Kept(results[1]))]_vars

\* C19 witness: a fetch on a cold start whose batch had a Failed entry and
\* whose save failed after the first writes; nothing was printed.
C19_Witness ==
  /\ pc[1] = "failed"
  /\ FirstCall(args[1]) = "fetch"
  /\ err[1] = "Failed to write state file"
  /\ hist[1].writes >= 1
  /\ Len(results[1]) = 2
  /\ IsFailed(results[1][1])
  /\ out[1] = <<>>
====
